---- MODULE Spec2Model ----
(***************************************************************************)
(* Model of src/app.py, the Streamlit "LST Hotspot Analyzer".              *)
(*                                                                         *)
(* Numbers.  Raster samples are integers small enough that float32 holds   *)
(* them exactly (AsFloat32 rounds the others).  A threshold is kept in     *)
(* hundredths (v100): with an integer percentile q and integer samples the *)
(* linear interpolation of np.percentile has denominator 100, so the       *)
(* comparison  sample > threshold  is  100 * sample > v100  exactly.       *)
(* Coordinates are fixed-point: affine coefficients are integers in units  *)
(* of 10^-7, and a coordinate is kept doubled (so that the half pixel     *)
(* offset stays an integer), i.e. in units of 10^-7 / 2; 10^-6 is 20 such  *)
(* units.                                                                  *)
(* Samples are finite numbers; a raster that stores NaN or infinities is   *)
(* outside the model.                                                      *)
(***************************************************************************)
EXTENDS Integers, Sequences, FiniteSets, TLC

VARIABLES
    band,               \* src.read(1): the samples of the raster file
    src_nodata,         \* src.nodata: None or the declared sentinel
    transform,          \* src.transform: the affine coefficients a..f
    upper_percentile,   \* value returned by the percentile slider
    outcome,            \* "none": analyzer_tab not run, "ok": the try block
                        \* completed, "error": the except branch ran
    nodata,             \* local nodata of analyzer_tab
    data,               \* local data: samples as float32, NaN where masked
    valid_vals,         \* local valid_vals, in row-major order
    threshold,          \* local threshold
    cells,              \* zip(rows, cols) of np.where(data > threshold)
    hotspots,           \* local hotspots: [lat, lon] pairs
    metrics,            \* the three st.metric values of the dashboard
    page,               \* what main() rendered in the last script run
    trigger,            \* the widget event that caused the last script run
    slider              \* session state of the percentile slider widget

inputs  == <<band, src_nodata, transform>>
locals  == <<nodata, data, valid_vals, threshold, cells, hotspots, metrics>>
ui      == <<page, trigger, slider>>
vars    == <<band, src_nodata, transform, upper_percentile, outcome,
             nodata, data, valid_vals, threshold, cells, hotspots, metrics,
             page, trigger, slider>>

---------------------------------------------------------------------------
(* Bounds of the model and constants of the program *)

MaxSample == 3

NoDataDefault == -9999

SliderMin == 75

SliderMax == 100

SliderDefault == 95

Shape == <<2, 2>>

NRows == Shape[1]

NCols == Shape[2]

Cells == (0 .. NRows - 1) \X (0 .. NCols - 1)

Samples == {NoDataDefault, 100} \cup (-1 .. MaxSample)

None == <<>>

Some(x) == <<x>>

Declared == {None, Some(0), Some(1)}

Percentiles == {0, SliderMin, SliderDefault, SliderMax}

SliderValues == SliderMin .. SliderMax

Transforms ==
    { [a |-> 30, b |-> 0, c |-> 1000, d |-> 0, e |-> -30, f |-> 2000],
      [a |-> 13, b |-> 7, c |-> 1003, d |-> 5, e |-> -17, f |-> 2001] }

---------------------------------------------------------------------------
(* Arithmetic helpers *)

Abs(x) == IF x < 0 THEN -x ELSE x

\* v rounded to the nearest multiple of m, ties to the even multiple
RoundHalfEven(v, m) ==
    LET rem  == v % m
        base == v - rem
    IN  IF 2 * rem < m THEN base
        ELSE IF 2 * rem > m THEN base + m
        ELSE IF (base \div m) % 2 = 0 THEN base ELSE base + m

\* spacing of the float32 values around the integer v (24-bit significand)
RECURSIVE Ulp32(_, _)
Ulp32(v, step) ==
    IF Abs(v) <= step * 16777216 THEN step ELSE Ulp32(v, 2 * step)

\* band.astype(np.float32) on an integer sample: exact up to 2^24
AsFloat32(v) ==
    IF -16777216 <= v /\ v <= 16777216 THEN v
    ELSE RoundHalfEven(v, Ulp32(v, 1))

---------------------------------------------------------------------------
(* The data processing pipeline of analyzer_tab *)

NaN == [nan |-> TRUE, v |-> 0]

Num(x) == [nan |-> FALSE, v |-> x]

Unset == [kind |-> "unset", v100 |-> 0]

NaNThreshold == [kind |-> "nan", v100 |-> 0]

\* nodata = src.nodata or -9999 : None and 0.0 are both falsy
NodataOr(declared) ==
    IF declared = None \/ declared[1] = 0 THEN NoDataDefault ELSE declared[1]

\* data = band.astype(np.float32); data[data == nodata] = np.nan
MaskNodata(b, nd) ==
    LET nd32 == AsFloat32(nd)
    IN  [rc \in Cells |->
            LET x == AsFloat32(b[rc]) IN IF x = nd32 THEN NaN ELSE Num(x)]

FlatCellsColumnMajor ==
    [i \in 1 .. NRows * NCols |-> <<(i - 1) % NRows, (i - 1) \div NRows>>]

\* the cells in C order, the order in which numpy enumerates an array
FlatCells ==
    [i \in 1 .. NRows * NCols |-> <<(i - 1) \div NCols, (i - 1) % NCols>>]

\* valid_vals = data[~np.isnan(data)]
ValidVals(d) ==
    LET keep == SelectSeq(FlatCells, LAMBDA rc : ~d[rc].nan)
    IN  [i \in 1 .. Len(keep) |-> d[keep[i]].v]

RECURSIVE Sort(_)
Sort(s) ==
    IF s = <<>> THEN <<>>
    ELSE LET i == CHOOSE j \in 1 .. Len(s) : \A k \in 1 .. Len(s) : s[j] <= s[k]
         IN  <<s[i]>> \o Sort(SubSeq(s, 1, i - 1) \o SubSeq(s, i + 1, Len(s)))

PercentileLower(vals, q) ==
    LET s == Sort(vals)
    IN  [kind |-> "num", v100 |-> 100 * s[((q * (Len(vals) - 1)) \div 100) + 1]]

\* np.percentile(vals, q), default method "linear", for non-empty vals
Percentile(vals, q) ==
    LET n   == Len(vals)
        s   == Sort(vals)
        pos == q * (n - 1)
        lo  == pos \div 100
        g   == pos % 100
        hi  == IF lo + 1 < n THEN lo + 1 ELSE lo
    IN  [kind |-> "num",
         v100 |-> 100 * s[lo + 1] + g * (s[hi + 1] - s[lo + 1])]

GreaterBelow(x, t) == ~x.nan /\ t.kind = "num" /\ 100 * x.v < t.v100

\* one element of  data > threshold : a comparison with NaN is False
Greater(x, t) == ~x.nan /\ t.kind = "num" /\ 100 * x.v > t.v100

\* zip(rows, cols) for rows, cols = np.where(data > threshold)
Where(d, t) == SelectSeq(FlatCells, LAMBDA rc : Greater(d[rc], t))

XYUpperLeft(t, r, c) ==
    << 2 * t.c + t.a * (2 * c) + t.b * (2 * r),
       2 * t.f + t.d * (2 * c) + t.e * (2 * r) >>

\* rasterio.transform.xy(transform, r, c), offset "center": (x, y), doubled
XY(t, r, c) ==
    << 2 * t.c + t.a * (2 * c + 1) + t.b * (2 * r + 1),
       2 * t.f + t.d * (2 * c + 1) + t.e * (2 * r + 1) >>

\* np.round(value, 6) of a doubled coordinate
Round6(v2) == RoundHalfEven(v2, 20)

\* the entry appended to hotspots for the cell (r, c)
HotspotAt(t, r, c) ==
    LET lonlat == XY(t, r, c)
    IN  <<Round6(lonlat[2]), Round6(lonlat[1])>>

Hotspots(t, cs) == [i \in 1 .. Len(cs) |-> HotspotAt(t, cs[i][1], cs[i][2])]

NoMetrics == [shown |-> FALSE, threshold |-> Unset, hotspots |-> 0,
              valid |-> 0, total |-> 0]

\* the metrics dashboard: threshold, len(hotspots), valid_vals.size, data.size
Metrics(t, hs, vv) ==
    [shown |-> TRUE, threshold |-> t, hotspots |-> Len(hs),
     valid |-> Len(vv), total |-> NRows * NCols]

\* the rest of the try block once np.percentile has returned t
Extract(d, vv, t) ==
    LET cs == Where(d, t)
        hs == Hotspots(transform, cs)
    IN  /\ threshold' = t
        /\ cells' = cs
        /\ hotspots' = hs
        /\ metrics' = Metrics(t, hs, vv)
        /\ outcome' = "ok"

\* the except branch: st.error and st.stop, nothing after line 76 has run
Except ==
    /\ threshold' = Unset
    /\ cells' = <<>>
    /\ hotspots' = <<>>
    /\ metrics' = NoMetrics
    /\ outcome' = "error"

\* analyzer_tab with the slider returning q.  np.percentile of an empty
\* array raises IndexError or returns nan, depending on the numpy release
\* (emptyRaises).
analyzer_tab(q, emptyRaises) ==
    LET nd == NodataOr(src_nodata)
        d  == MaskNodata(band, nd)
        vv == ValidVals(d)
    IN  /\ upper_percentile' = q
        /\ nodata' = nd
        /\ data' = d
        /\ valid_vals' = vv
        /\ IF vv # <<>> THEN Extract(d, vv, Percentile(vv, q))
           ELSE IF emptyRaises THEN Except
           ELSE Extract(d, vv, NaNThreshold)

InitRaster ==
    /\ band \in [Cells -> Samples]
    /\ src_nodata \in Declared
    /\ transform \in Transforms

InitLocals ==
    /\ upper_percentile = SliderDefault
    /\ outcome = "none"
    /\ nodata = NoDataDefault
    /\ data = [rc \in Cells |-> NaN]
    /\ valid_vals = <<>>
    /\ threshold = Unset
    /\ cells = <<>>
    /\ hotspots = <<>>
    /\ metrics = NoMetrics

---------------------------------------------------------------------------
(* The pipeline as a function of (raster, percentile): the raster is drawn *)
(* by Init and every step runs analyzer_tab with some percentile.          *)

Init ==
    /\ InitRaster
    /\ InitLocals
    /\ page = "analyzer"
    /\ trigger = "analyzer_button"
    /\ slider = None

\* valid_vals will be non-empty: some sample differs from nodata
HasValid ==
    ~(\A rc \in Cells : AsFloat32(band[rc]) = AsFloat32(NodataOr(src_nodata)))

\* a run of the pipeline on a raster with valid samples
Run ==
    /\ HasValid
    /\ \E q \in Percentiles : analyzer_tab(q, FALSE)
    /\ UNCHANGED <<inputs, ui>>

\* a run on a raster without valid samples, np.percentile raising
RunEmptyRaises ==
    /\ ~HasValid
    /\ \E q \in Percentiles : analyzer_tab(q, TRUE)
    /\ UNCHANGED <<inputs, ui>>

\* a run on a raster without valid samples, np.percentile returning nan
RunEmptyNaN ==
    /\ ~HasValid
    /\ \E q \in Percentiles : analyzer_tab(q, FALSE)
    /\ UNCHANGED <<inputs, ui>>

Next == Run \/ RunEmptyRaises \/ RunEmptyNaN

Spec == Init /\ [][Next]_vars

---------------------------------------------------------------------------
(* The script reruns of main().  Streamlit runs the whole script again on  *)
(* every widget event; st.button returns True only in the run its click    *)
(* caused, and a widget that a run does not call loses its session state.  *)

\* no analyzer_tab call in this run: its locals do not exist
NoRun ==
    /\ upper_percentile' = SliderDefault
    /\ outcome' = "none"
    /\ nodata' = NoDataDefault
    /\ data' = [rc \in Cells |-> NaN]
    /\ valid_vals' = <<>>
    /\ threshold' = Unset
    /\ cells' = <<>>
    /\ hotspots' = <<>>
    /\ metrics' = NoMetrics

\* st.slider(..., 75, 100, 95, 1): the session value, 95 for a new widget
SliderReturn == IF slider = None THEN SliderDefault ELSE slider[1]

\* main() with analyzer_button True
MainAnalyzer(emptyRaises) ==
    /\ analyzer_tab(SliderReturn, emptyRaises)
    /\ slider' = Some(SliderReturn)
    /\ page' = "analyzer"
    /\ trigger' = "analyzer_button"
    /\ UNCHANGED inputs

ClickAnalyzer == HasValid /\ MainAnalyzer(FALSE)

ClickAnalyzerEmptyRaises == ~HasValid /\ MainAnalyzer(TRUE)

ClickAnalyzerEmptyNaN == ~HasValid /\ MainAnalyzer(FALSE)

\* main() with documentation_button True
ClickDocumentation ==
    /\ NoRun
    /\ slider' = None
    /\ page' = "documentation"
    /\ trigger' = "documentation_button"
    /\ UNCHANGED inputs

\* the user moves the percentile slider to q: main() runs with both
\* buttons False and takes the else branch
MoveSlider ==
    /\ slider # None
    /\ \E q \in SliderValues \ {slider[1]} :
          /\ NoRun
          /\ slider' = None
          /\ page' = "navigate"
          /\ trigger' = "slider"
    /\ UNCHANGED inputs

\* the first run of the script: no button has been clicked
InitUI ==
    /\ InitRaster
    /\ InitLocals
    /\ page = "navigate"
    /\ trigger = "load"
    /\ slider = None

NextUI ==
    \/ ClickAnalyzer
    \/ ClickAnalyzerEmptyRaises
    \/ ClickAnalyzerEmptyNaN
    \/ ClickDocumentation
    \/ MoveSlider

SpecUI == InitUI /\ [][NextUI]_vars

---------------------------------------------------------------------------
(* Notions of the specification used to state the claims *)

\* the sentinel of the raster: the declared one, -9999 when none is declared
DeclaredSentinel == IF src_nodata = None THEN NoDataDefault ELSE src_nodata[1]

Ran == outcome # "none"

CellSet == {cells[i] : i \in 1 .. Len(cells)}

\* the samples that are not the raster's sentinel, in row-major order
NonSentinelVals ==
    LET keep == SelectSeq(FlatCells, LAMBDA rc : band[rc] # DeclaredSentinel)
    IN  [i \in 1 .. Len(keep) |-> band[keep[i]]]

MaxOfBand == CHOOSE m \in {band[rc] : rc \in Cells} : \A rc \in Cells : band[rc] <= m

\* (r1, c1) comes before (r2, c2) in row-major order
RowMajorBefore(x, y) == x[1] < y[1] \/ (x[1] = y[1] /\ x[2] < y[2])

ScenarioGrid == [rc \in Cells |->
    IF rc = <<0, 0>> THEN 1 ELSE IF rc = <<0, 1>> THEN 2
    ELSE IF rc = <<1, 0>> THEN 3 ELSE 100]

---------------------------------------------------------------------------
(* Claims *)

\* C1: a cell is in the hotspot list of a completed run if and only if its
\* sample is not the raster's no-data sentinel and is strictly greater than
\* the computed threshold.
C1_HotspotIffAboveThreshold ==
    outcome = "ok" =>
        \A rc \in Cells :
            rc \in CellSet <=>
                /\ band[rc] # DeclaredSentinel
                /\ threshold.kind = "num"
                /\ 100 * band[rc] > threshold.v100

\* C2: the statistics exclude exactly the sentinel samples: the valid count
\* shown for coverage is the number of non-sentinel cells, at most the total
\* count, and the threshold is the percentile of the non-sentinel samples.
C2_StatisticsExcludeSentinel ==
    outcome = "ok" =>
        /\ metrics.valid = Cardinality({rc \in Cells : band[rc] # DeclaredSentinel})
        /\ metrics.valid <= metrics.total
        /\ NonSentinelVals # <<>> =>
              threshold = Percentile(NonSentinelVals, upper_percentile)

\* C3: the loader's sentinel is the declared one (also when it is 0), and
\* -9999 only when none is declared: exactly the cells equal to it are masked.
C3_SentinelIsDeclared ==
    Ran =>
        /\ nodata = DeclaredSentinel
        /\ \A rc \in Cells : data[rc].nan <=> band[rc] = DeclaredSentinel

\* C4: with no valid sample the run completes outside the error path with an
\* empty hotspot list; np.percentile is not evaluated on the empty array (the
\* threshold stays undefined) and no threshold metric is rendered.
C4_EmptyValidDataCompletes ==
    (Ran /\ valid_vals = <<>>) =>
        /\ outcome = "ok"
        /\ hotspots = <<>>
        /\ threshold.kind = "unset"
        /\ metrics.threshold.kind = "unset"

\* C5: on a raster without no-data cells a run with p = 100 has the maximum
\* sample as its threshold and an empty hotspot list.
C5_Percentile100IsMax ==
    (Ran /\ upper_percentile = 100 /\ \A rc \in Cells : band[rc] # DeclaredSentinel) =>
        /\ outcome = "ok"
        /\ threshold = [kind |-> "num", v100 |-> 100 * MaxOfBand]
        /\ hotspots = <<>>

\* C6: on a fixed raster, a run with a percentile at least as large as that
\* of the run before it yields at most as many hotspots.
C6_CountMonotoneInPercentile ==
    [][(Ran /\ Ran' /\ upper_percentile <= upper_percentile')
          => Len(hotspots') <= Len(hotspots)]_vars

\* C6 witness: a run at the top percentile without hotspots on a raster where
\* the run at percentile 0 yields some.
C6_Witness ==
    /\ outcome = "ok"
    /\ upper_percentile = SliderMax
    /\ hotspots = <<>>
    /\ valid_vals # <<>>
    /\ Len(Where(data, Percentile(valid_vals, 0))) > 0

\* C7: the threshold is the linear interpolation between the order statistics
\* at the floor and the ceiling of p/100 * (n-1); on [[1,2],[3,100]] with
\* sentinel -9999 and p = 75 it is 27.25 and the only hotspot is cell (1,1).
C7_LinearInterpolation ==
    (outcome = "ok" /\ valid_vals # <<>>) =>
        /\ LET n   == Len(valid_vals)
               s   == Sort(valid_vals)
               k   == upper_percentile * (n - 1)
               flo == k \div 100
               cei == (k + 99) \div 100
               g   == k - 100 * flo
           IN  /\ threshold.kind = "num"
               /\ threshold.v100 = (100 - g) * s[flo + 1] + g * s[cei + 1]
        /\ (band = ScenarioGrid /\ nodata = -9999 /\ upper_percentile = 75) =>
              /\ threshold.v100 = 2725
              /\ cells = << <<1, 1>> >>
              /\ Len(hotspots) = 1

C7_Witness ==
    /\ outcome = "ok"
    /\ band = ScenarioGrid
    /\ DeclaredSentinel = -9999
    /\ upper_percentile = 75
    /\ Len(hotspots) = 1

\* C8: the hotspot list has one entry per cell selected by data > threshold,
\* in row-major order (ascending row, then ascending column), so no cell is
\* listed twice and the list is determined by the raster and the percentile.
C8_RowMajorNoDuplicates ==
    outcome = "ok" =>
        /\ Len(hotspots) = Len(cells)
        /\ CellSet = {rc \in Cells : Greater(data[rc], threshold)}
        /\ \A i, j \in 1 .. Len(cells) : i < j => RowMajorBefore(cells[i], cells[j])
        /\ \A i \in 1 .. Len(cells) :
              hotspots[i] = HotspotAt(transform, cells[i][1], cells[i][2])

C8_Witness ==
    /\ outcome = "ok"
    /\ Len(cells) >= 3
    /\ \E i, j \in 1 .. Len(cells) : cells[i][1] # cells[j][1]
    /\ \E i, j \in 1 .. Len(cells) : cells[i][2] # cells[j][2]

\* C9: the entry of the cell (row, col) is (latitude, longitude) = (y, x), the
\* affine transform at the cell centre (col + 0.5, row + 0.5), each within
\* 1e-6 of the exact value after the rounding to 6 decimals.
C9_CellCentreLatLon ==
    outcome = "ok" =>
        \A i \in 1 .. Len(hotspots) :
            LET r  == cells[i][1]
                c  == cells[i][2]
                x2 == 2 * transform.c + transform.a * (2 * c + 1)
                                      + transform.b * (2 * r + 1)
                y2 == 2 * transform.f + transform.d * (2 * c + 1)
                                      + transform.e * (2 * r + 1)
                tol == 2 * 10
            IN  /\ Len(hotspots[i]) = 2
                /\ Abs(hotspots[i][1] - y2) <= tol
                /\ Abs(hotspots[i][2] - x2) <= tol
                /\ hotspots[i][1] % tol = 0
                /\ hotspots[i][2] % tol = 0

\* C9 witness: a hotspot off the first row and column, under the rotated
\* transform, whose exact coordinate is not on the 6-decimal grid.
C9_Witness ==
    /\ outcome = "ok"
    /\ transform.b # 0
    /\ \E i \in 1 .. Len(hotspots) :
          /\ cells[i] = <<1, 1>>
          /\ XY(transform, 1, 1)[1] # hotspots[i][2]

\* C10: a script run caused by a change of the percentile slider shows the
\* Analyzer view and runs the pipeline with the new value.
C10_SliderChangeRerunsAnalyzer ==
    trigger = "slider" =>
        /\ page = "analyzer"
        /\ Ran
        /\ slider = Some(upper_percentile)

====
